---- MODULE Spec2Model ----
\* ChunkPipe (src/methods.go): a doubly linked chain of chunks, each chunk a
\* window [offset, size) over a block of values handed in by Push.
EXTENDS Integers, Sequences, FiniteSets, TLC

\* ---------------------------------------------------------------- bounds
MaxChunks == 2          \* chunk/block addresses available at one time
MaxPushes == 2          \* non-empty Push calls in one behaviour of Spec and SpecBig
MaxStreamPushes == 3    \* non-empty Push calls in one behaviour of SpecStream
MaxBigPopped == 4       \* SpecBig: pops are called while fewer elements were popped
MaxStreamPopped == 1    \* SpecStream: pops are called while fewer elements were popped
MaxReceived == 1        \* SpecAbandon: batches the consumer receives before it may stop
                        \* (the long chains hold ChanCap + MaxReceived + 1 chunks)
MaxConcPopped == 1      \* SpecConc: pops are called while fewer elements were popped
MaxAbandonPopped == 1   \* SpecAbandon: pops are called while fewer elements were popped

\* ------------------------------------------------------ program constants
SmallLen == 8       \* Push: len(data) <= 8 selects the small-append test
TailRoom == 16      \* Push: tail.size - tail.offset < 16
KeepMargin == 8     \* PopFront: block.offset < block.size - 8
batchSize == 16     \* RangeValues: const batchSize = 16
BatchCap == 1024    \* RangeChunk: buffer := make([]T, 0, 1024)
ChanCap == 256      \* RangeChunk: ch := make(chan []T, 256)

Nil == 0
zero == 0
\* Addresses of the model's memory: enough for a chain that fills the channel.
ChunkIds == 1..(ChanCap + MaxReceived + MaxChunks + 1)

VARIABLES
    mem,        \* memory: block address -> [vals, cap], the slots written so far kept as runs
    chunks,     \* Chunk structs: address -> [data, size, offset, prev, next]
    head, tail, totalSize, validSize,   \* ChunkPipe fields
    mu,         \* cl.mu: number of holders of the shared (read) lock across steps
    pc,         \* RangeChunk's goroutine: where it is
    current,    \* RangeChunk's goroutine: current
    buffer,     \* RangeChunk's goroutine: buffer
    ch,         \* RangeChunk's channel: the batches sent and not yet received
    closed,     \* number of close(ch) executed
    received,   \* the consumer: the batches received, as read on receipt
    consDone,   \* the consumer: its receive loop has seen the channel closed
    snapshot,   \* history: the ChunkPipe as it was when the goroutine got the lock
    nPush,      \* history: number of non-empty Push calls
    pushedLen,  \* history: sum of the lengths of all pushed inputs
    poppedCnt,  \* history: number of elements returned by successful pops
    lastCall,   \* history: the last call, its arguments, its result, the state before it
    root,       \* ChunkPipe field root: address of the index tree's root node
    nodes,      \* TreeNode structs: address -> [sum, validSize, left, right, block]
    muW,        \* cl.mu: the caller that holds the exclusive lock, or Nil
    threads,    \* concurrent callers: each one's call in progress and where it is
    lin,        \* history: the calls applied one at a time in lock order
    out,        \* history: the values returned by the callers' pops, in return order
    abandoned   \* the consumer has stopped receiving from RangeChunk's channel

pipeVars == <<mem, chunks, head, tail, totalSize, validSize>>
streamVars == <<mu, pc, current, buffer, ch, closed, received, consDone, snapshot>>
histVars == <<nPush, pushedLen, poppedCnt>>
treeVars == <<root, nodes>>
callVars == <<muW, threads, lin, out>>
vars == <<pipeVars, streamVars, histVars, lastCall, treeVars, callVars, abandoned>>

\* ------------------------------------------------------- memory contents
\* The slots of a block are kept in a state one by one while they are few,
\* and else as the runs of consecutive values they consist of: <<i, v>> says
\* that a run starts at slot i with value v. Pack and Unpack are inverse to
\* each other; everything below reads and writes the slots themselves,
\* through blocks and SetPipe.
PackFrom == 64

Starts(v) == {i \in 1..Len(v) : i = 1 \/ v[i] # v[i - 1] + 1}

RunsOf(w) == [len |-> Len(w), runs |-> {<<i, w[i]>> : i \in Starts(w)}, slots |-> <<>>]

Pack(v) ==
    IF Len(v) < PackFrom
    THEN [len |-> Len(v), runs |-> {}, slots |-> v]
    ELSE CHOOSE p \in {RunsOf(w) : w \in {SubSeq(v, 1, Len(v))}} : TRUE

\* The slots whose runs are rs; a slot's value is counted from the start of
\* the last run at or before it.
Slots(n, rs) ==
    IF Cardinality(rs) = 1
    THEN CHOOSE f \in {[i \in 1..n |-> r[2] + (i - 1)] : r \in rs} : TRUE
    ELSE [i \in 1..n |->
            LET r == CHOOSE r \in rs : r[1] <= i /\ \A q \in rs : q[1] <= i => q[1] <= r[1]
            IN  r[2] + (i - r[1])]

Unpack(p) ==
    IF p.runs = {}
    THEN p.slots
    ELSE CHOOSE f \in {Slots(q.len, q.runs) : q \in {p}} : TRUE

\* Memory m and a ChunkPipe value cl with the slots of every block packed,
\* and back.
PackBlocks(m) == [b \in DOMAIN m |-> [vals |-> Pack(m[b].vals), cap |-> m[b].cap]]

UnpackBlocks(m) == [b \in DOMAIN m |-> [vals |-> Unpack(m[b].vals), cap |-> m[b].cap]]

PackCL(cl) == CHOOSE p \in {[c EXCEPT !.blocks = PackBlocks(c.blocks)] : c \in {cl}} : TRUE

UnpackCL(cl) == [cl EXCEPT !.blocks = UnpackBlocks(@)]

\* memory: block address -> [vals, cap]; vals are the slots written so far
blocks == [b \in DOMAIN mem |-> [vals |-> Unpack(mem[b].vals), cap |-> mem[b].cap]]

\* The consumer: the batches received, as read on receipt.
recv == [i \in 1..Len(received) |-> Unpack(received[i])]

\* The ChunkPipe as it was when the goroutine got the lock.
snap == UnpackCL(snapshot)

\* The concurrent callers: each one's call in progress and where it is.
th == [t \in DOMAIN threads |-> [threads[t] EXCEPT !.res = [@ EXCEPT !.cl = UnpackCL(@)]]]

\* The last call, its arguments, its result, the state before it.
last == [lastCall EXCEPT !.pre = UnpackCL(lastCall.pre)]

\* The ChunkPipe and the memory it points into, as the state holds them.
PackedCL == [blocks |-> mem, chunks |-> chunks, head |-> head, tail |-> tail,
             totalSize |-> totalSize, validSize |-> validSize]

\* Records call l as the last one; the state before it is the current one.
SetLast(l) == lastCall' = [l EXCEPT !.pre = PackedCL]

\* The ChunkPipe and the memory it points into, as one value.
CL == [blocks |-> blocks, chunks |-> chunks, head |-> head, tail |-> tail,
       totalSize |-> totalSize, validSize |-> validSize]

Max(a, b) == IF a >= b THEN a ELSE b

\* The caller's block of the n-th Push: len distinct values.
Block(n, len) == [i \in 1..len |-> 100 * n + i]

\* ------------------------------------------------------------ chain edits
Restrict(f, S) == [x \in S |-> f[x]]

\* The blocks a window sent on the channel still points into.
Pinned == {ch[i].id : i \in {j \in 1..Len(ch) : ch[j].alias}}

\* A chunk no pointer reaches any more is collected, and its block with it
\* unless a slice on the channel keeps it alive.
Collect(cl, id) ==
    [cl EXCEPT !.chunks = Restrict(cl.chunks, DOMAIN cl.chunks \ {id}),
               !.blocks = Restrict(cl.blocks, DOMAIN cl.blocks \ ({id} \ Pinned))]

\* As UnlinkHead, without clearing the new head's prev.
UnlinkHeadKeepsPrev(cl) ==
    LET block == cl.chunks[cl.head]
        nh == block.next
        c1 == IF nh # Nil
              THEN [cl EXCEPT !.head = nh]
              ELSE [cl EXCEPT !.head = Nil, !.tail = Nil]
    IN  Collect(c1, cl.head)

\* cl.head = block.next; if cl.head != nil { cl.head.prev = nil } else { cl.tail = nil }
UnlinkHead(cl) ==
    LET block == cl.chunks[cl.head]
        nh == block.next
        c1 == IF nh # Nil
              THEN [cl EXCEPT !.head = nh, !.chunks[nh].prev = Nil]
              ELSE [cl EXCEPT !.head = Nil, !.tail = Nil]
    IN  Collect(c1, cl.head)

\* cl.tail = block.prev; if cl.tail != nil { cl.tail.next = nil } else { cl.head = nil }
UnlinkTail(cl) ==
    LET block == cl.chunks[cl.tail]
        nt == block.prev
        c1 == IF nt # Nil
              THEN [cl EXCEPT !.tail = nt, !.chunks[nt].next = Nil]
              ELSE [cl EXCEPT !.tail = Nil, !.head = Nil]
    IN  Collect(c1, cl.tail)

\* The values of slots [lo, hi) of a block (0-based, as unsafe.Slice(...)[lo:hi]).
Window(cl, c, lo, hi) == SubSeq(cl.blocks[c.data].vals, lo + 1, hi)

\* ------------------------------------------------------------------ Push
\* What a store beyond the capacity of the caller's block leaves in the slot:
\* the value stored, or whatever the owner of that memory holds there.
\* <<>> stands for the first, <<g>> for the second with g in the slot.
GarbageValues == {-1}
OobOutcomes == {<<>>} \cup {<<g>> : g \in GarbageValues}

\* As SmallAppend, for blocks shorter than SmallLen only.
SmallAppendBelowSmallLen(cl, d) ==
    /\ Len(d) < SmallLen
    /\ cl.tail # Nil
    /\ cl.chunks[cl.tail].size - cl.chunks[cl.tail].offset < TailRoom

\* Push takes the small-append path (lines 18-19).
SmallAppend(cl, d) ==
    /\ Len(d) <= SmallLen
    /\ cl.tail # Nil
    /\ cl.chunks[cl.tail].size - cl.chunks[cl.tail].offset < TailRoom

\* The small append stores at a slot index >= cap of the tail's block.
WritesBeyondCap(cl, d) ==
    /\ Len(d) > 0
    /\ SmallAppend(cl, d)
    /\ cl.chunks[cl.tail].size + Len(d) > cl.blocks[cl.chunks[cl.tail].data].cap

FreeIds(cl) == ChunkIds \ (DOMAIN cl.chunks \cup DOMAIN cl.blocks)
NewId(cl) == CHOOSE i \in FreeIds(cl) : \A j \in FreeIds(cl) : i <= j

\* Lines 21-24: *(ptr + i) = data[i] for ptr = tail.data + tail.size.
StoreAtTail(cl, d, oob) ==
    LET t == cl.chunks[cl.tail]
        b == cl.blocks[t.data]
        n == Max(Len(b.vals), t.size + Len(d))
    IN  [i \in 1..n |->
            IF i > t.size /\ i <= t.size + Len(d)
            THEN (IF i <= b.cap \/ oob = <<>> THEN d[i - t.size] ELSE oob[1])
            ELSE b.vals[i]]

\* As DoPush, appending in place only where the tail's block has room.
DoPushChecksCap(cl, d, cap, oob) ==
    IF Len(d) = 0 THEN cl
    ELSE IF SmallAppend(cl, d) /\ ~WritesBeyondCap(cl, d)
    THEN LET t == cl.chunks[cl.tail]
         IN  [cl EXCEPT !.blocks[t.data].vals = StoreAtTail(cl, d, oob),
                        !.chunks[cl.tail].size = @ + Len(d),
                        !.totalSize = @ + Len(d),
                        !.validSize = @ + Len(d)]
    ELSE LET id == NewId(cl)
             block == [data |-> id, size |-> Len(d), offset |-> 0,
                       prev |-> cl.tail, next |-> Nil]
             linked == IF cl.tail # Nil
                       THEN [c \in DOMAIN cl.chunks \cup {id} |->
                               IF c = id THEN block
                               ELSE IF c = cl.tail THEN [cl.chunks[c] EXCEPT !.next = id]
                               ELSE cl.chunks[c]]
                       ELSE [c \in DOMAIN cl.chunks \cup {id} |->
                               IF c = id THEN block ELSE cl.chunks[c]]
         IN  [blocks |-> [c \in DOMAIN cl.blocks \cup {id} |->
                             IF c = id THEN [vals |-> d, cap |-> cap] ELSE cl.blocks[c]],
              chunks |-> linked,
              head |-> IF cl.tail # Nil THEN cl.head ELSE id,
              tail |-> id,
              totalSize |-> cl.totalSize + Len(d),
              validSize |-> cl.validSize + Len(d)]

DoPush(cl, d, cap, oob) ==
    IF Len(d) = 0 THEN cl
    ELSE IF SmallAppend(cl, d)
    THEN LET t == cl.chunks[cl.tail]
         IN  [cl EXCEPT !.blocks[t.data].vals = StoreAtTail(cl, d, oob),
                        !.chunks[cl.tail].size = @ + Len(d),
                        !.totalSize = @ + Len(d),
                        !.validSize = @ + Len(d)]
    ELSE LET id == NewId(cl)
             block == [data |-> id, size |-> Len(d), offset |-> 0,
                       prev |-> cl.tail, next |-> Nil]
             linked == IF cl.tail # Nil
                       THEN [c \in DOMAIN cl.chunks \cup {id} |->
                               IF c = id THEN block
                               ELSE IF c = cl.tail THEN [cl.chunks[c] EXCEPT !.next = id]
                               ELSE cl.chunks[c]]
                       ELSE [c \in DOMAIN cl.chunks \cup {id} |->
                               IF c = id THEN block ELSE cl.chunks[c]]
         IN  [blocks |-> [c \in DOMAIN cl.blocks \cup {id} |->
                             IF c = id THEN [vals |-> d, cap |-> cap] ELSE cl.blocks[c]],
              chunks |-> linked,
              head |-> IF cl.tail # Nil THEN cl.head ELSE id,
              tail |-> id,
              totalSize |-> cl.totalSize + Len(d),
              validSize |-> cl.validSize + Len(d)]

\* ------------------------------------------------------ insertBlockToTree
\* The index tree as one value: the root pointer and the TreeNode structs.
Tree == [root |-> root, nodes |-> nodes]

EmptyTree == [root |-> Nil, nodes |-> <<>>]

\* Lines 71-87: the loop from current, adding the block's counts on the way
\* down and hanging the new node at the first free child.
RECURSIVE Descend(_, _, _, _, _)
Descend(ns, cur, id, size, valid) ==
    LET n1 == [ns EXCEPT ![cur].sum = @ + size, ![cur].validSize = @ + valid]
    IN  IF n1[cur].left = Nil THEN [n1 EXCEPT ![cur].left = id]
        ELSE IF n1[cur].right = Nil THEN [n1 EXCEPT ![cur].right = id]
        ELSE IF n1[n1[cur].left].sum <= n1[n1[cur].right].sum
        THEN Descend(n1, n1[cur].left, id, size, valid)
        ELSE Descend(n1, n1[cur].right, id, size, valid)

\* cl.insertBlockToTree(block) for the chunk at address block of chs.
\* No method of the source calls it.
InsertBlockToTree(tr, chs, block) ==
    IF block = Nil THEN tr
    ELSE LET id == Cardinality(DOMAIN tr.nodes) + 1
             newNode == [sum |-> chs[block].size,
                         validSize |-> chs[block].size - chs[block].offset,
                         left |-> Nil, right |-> Nil, blockAddr |-> block]
             withNew == [n \in DOMAIN tr.nodes \cup {id} |->
                            IF n = id THEN newNode ELSE tr.nodes[n]]
         IN  IF tr.root = Nil
             THEN [root |-> id, nodes |-> withNew]
             ELSE [root |-> tr.root,
                   nodes |-> Descend(withNew, tr.root, id, chs[block].size,
                                     chs[block].size - chs[block].offset)]

\* ----------------------------------------------------------------- Range
RECURSIVE RangeFrom(_, _)
RangeFrom(cl, cur) ==
    IF cur = Nil THEN <<>>
    ELSE LET c == cl.chunks[cur]
         IN  (IF c.size > c.offset THEN Window(cl, c, c.offset, c.size) ELSE <<>>)
             \o RangeFrom(cl, c.next)

Range(cl) == IF cl.validSize = 0 THEN <<>> ELSE RangeFrom(cl, cl.head)

\* ------------------------------------------------------------------- Get
RECURSIVE GetFrom(_, _, _)
GetFrom(cl, cur, remainingIndex) ==
    IF cur = Nil THEN [val |-> zero, ok |-> FALSE]
    ELSE LET c == cl.chunks[cur]
             validCount == c.size - c.offset
         IN  IF remainingIndex < validCount
             THEN [val |-> cl.blocks[c.data].vals[c.offset + remainingIndex + 1], ok |-> TRUE]
             ELSE GetFrom(cl, c.next, remainingIndex - validCount)

\* As Get, addressing the head chunk without its offset.
GetNoOffset(cl, index) ==
    IF index < 0 \/ index >= cl.validSize THEN [val |-> zero, ok |-> FALSE]
    ELSE LET c == cl.chunks[cl.head]
         IN  IF index < c.size - c.offset
             THEN [val |-> cl.blocks[c.data].vals[index + 1], ok |-> TRUE]
             ELSE GetFrom(cl, c.next, index - (c.size - c.offset))

Get(cl, index) ==
    IF index < 0 \/ index >= cl.validSize THEN [val |-> zero, ok |-> FALSE]
    ELSE GetFrom(cl, cl.head, index)

\* --------------------------------------------------- PopChunkFront / End
\* As PopChunkFront, copying from the start of the block: copy(newData, src).
PopChunkFrontWholeBlock(cl) ==
    IF cl.head = Nil \/ cl.validSize = 0 THEN [cl |-> cl, vals |-> <<>>, ok |-> FALSE]
    ELSE LET block == cl.chunks[cl.head]
             validCount == block.size - block.offset
         IN  IF validCount <= 0
             THEN [cl |-> UnlinkHead(cl), vals |-> <<>>, ok |-> FALSE]
             ELSE [cl |-> [UnlinkHead(cl) EXCEPT !.totalSize = @ - validCount,
                                                 !.validSize = @ - validCount],
                   vals |-> Window(cl, block, 0, validCount),
                   ok |-> TRUE]

\* As PopChunkFront, taking the chunk's whole size off validSize.
PopChunkFrontSubtractsSize(cl) ==
    IF cl.head = Nil \/ cl.validSize = 0 THEN [cl |-> cl, vals |-> <<>>, ok |-> FALSE]
    ELSE LET block == cl.chunks[cl.head]
             validCount == block.size - block.offset
         IN  IF validCount <= 0
             THEN [cl |-> UnlinkHead(cl), vals |-> <<>>, ok |-> FALSE]
             ELSE [cl |-> [UnlinkHead(cl) EXCEPT !.totalSize = @ - validCount,
                                                 !.validSize = @ - block.size],
                   vals |-> Window(cl, block, block.offset, block.size),
                   ok |-> TRUE]

PopChunkFront(cl) ==
    IF cl.head = Nil \/ cl.validSize = 0 THEN [cl |-> cl, vals |-> <<>>, ok |-> FALSE]
    ELSE LET block == cl.chunks[cl.head]
             validCount == block.size - block.offset
         IN  IF validCount <= 0
             THEN [cl |-> UnlinkHead(cl), vals |-> <<>>, ok |-> FALSE]
             ELSE [cl |-> [UnlinkHead(cl) EXCEPT !.totalSize = @ - validCount,
                                                 !.validSize = @ - validCount],
                   vals |-> Window(cl, block, block.offset, block.size),
                   ok |-> TRUE]

PopChunkEnd(cl) ==
    IF cl.tail = Nil \/ cl.validSize = 0 THEN [cl |-> cl, vals |-> <<>>, ok |-> FALSE]
    ELSE LET block == cl.chunks[cl.tail]
             validCount == block.size - block.offset
         IN  IF validCount <= 0
             THEN [cl |-> UnlinkTail(cl), vals |-> <<>>, ok |-> FALSE]
             ELSE [cl |-> [UnlinkTail(cl) EXCEPT !.totalSize = @ - validCount,
                                                 !.validSize = @ - validCount],
                   vals |-> Window(cl, block, block.offset, block.size),
                   ok |-> TRUE]

\* ------------------------------------------------------ PopFront / PopEnd
\* As PopFront, reading the block's first slot instead of the slot at offset.
PopFrontIgnoresOffset(cl) ==
    IF cl.head = Nil \/ cl.validSize = 0 THEN [cl |-> cl, val |-> zero, ok |-> FALSE]
    ELSE LET block == cl.chunks[cl.head]
             value == cl.blocks[block.data].vals[1]
             c1 == [cl EXCEPT !.chunks[cl.head].offset = @ + 1,
                              !.validSize = @ - 1,
                              !.totalSize = @ - 1]
             b1 == c1.chunks[cl.head]
         IN  IF b1.offset >= b1.size
             THEN [cl |-> UnlinkHead(c1), val |-> value, ok |-> TRUE]
             ELSE [cl |-> c1, val |-> value, ok |-> TRUE]

\* As PopFront, leaving totalSize as it was.
PopFrontKeepsTotalSize(cl) ==
    IF cl.head = Nil \/ cl.validSize = 0 THEN [cl |-> cl, val |-> zero, ok |-> FALSE]
    ELSE LET block == cl.chunks[cl.head]
         IN  IF block.offset >= block.size
             THEN [cl |-> UnlinkHead(cl), val |-> zero, ok |-> FALSE]
             ELSE LET value == cl.blocks[block.data].vals[block.offset + 1]
                      c1 == [cl EXCEPT !.chunks[cl.head].offset = @ + 1,
                                       !.validSize = @ - 1]
                      b1 == c1.chunks[cl.head]
                  IN  IF b1.offset < b1.size - KeepMargin
                      THEN [cl |-> c1, val |-> value, ok |-> TRUE]
                      ELSE IF b1.offset >= b1.size
                      THEN [cl |-> UnlinkHead(c1), val |-> value, ok |-> TRUE]
                      ELSE [cl |-> c1, val |-> value, ok |-> TRUE]

\* As PopFront, leaving the head linked when its last element was taken.
PopFrontKeepsEmptyHead(cl) ==
    IF cl.head = Nil \/ cl.validSize = 0 THEN [cl |-> cl, val |-> zero, ok |-> FALSE]
    ELSE LET block == cl.chunks[cl.head]
         IN  IF block.offset >= block.size
             THEN [cl |-> UnlinkHead(cl), val |-> zero, ok |-> FALSE]
             ELSE LET value == cl.blocks[block.data].vals[block.offset + 1]
                      c1 == [cl EXCEPT !.chunks[cl.head].offset = @ + 1,
                                       !.validSize = @ - 1,
                                       !.totalSize = @ - 1]
                  IN  [cl |-> c1, val |-> value, ok |-> TRUE]

PopFront(cl) ==
    IF cl.head = Nil \/ cl.validSize = 0 THEN [cl |-> cl, val |-> zero, ok |-> FALSE]
    ELSE LET block == cl.chunks[cl.head]
         IN  IF block.offset >= block.size
             THEN [cl |-> UnlinkHead(cl), val |-> zero, ok |-> FALSE]
             ELSE LET value == cl.blocks[block.data].vals[block.offset + 1]
                      c1 == [cl EXCEPT !.chunks[cl.head].offset = @ + 1,
                                       !.validSize = @ - 1,
                                       !.totalSize = @ - 1]
                      b1 == c1.chunks[cl.head]
                  IN  IF b1.offset < b1.size - KeepMargin
                      THEN [cl |-> c1, val |-> value, ok |-> TRUE]
                      ELSE IF b1.offset >= b1.size
                      THEN [cl |-> UnlinkHead(c1), val |-> value, ok |-> TRUE]
                      ELSE [cl |-> c1, val |-> value, ok |-> TRUE]

\* As PopEnd, reading the slot at offset instead of the slot at size - 1.
PopEndReadsFront(cl) ==
    IF cl.tail = Nil \/ cl.validSize = 0 THEN [cl |-> cl, val |-> zero, ok |-> FALSE]
    ELSE LET block == cl.chunks[cl.tail]
             value == cl.blocks[block.data].vals[block.offset + 1]
             c1 == [cl EXCEPT !.chunks[cl.tail].size = @ - 1,
                              !.validSize = @ - 1,
                              !.totalSize = @ - 1]
             b1 == c1.chunks[cl.tail]
         IN  IF b1.size <= b1.offset
             THEN [cl |-> UnlinkTail(c1), val |-> value, ok |-> TRUE]
             ELSE [cl |-> c1, val |-> value, ok |-> TRUE]

\* As PopEnd, without cl.validSize--.
PopEndKeepsValidSize(cl) ==
    IF cl.tail = Nil \/ cl.validSize = 0 THEN [cl |-> cl, val |-> zero, ok |-> FALSE]
    ELSE LET block == cl.chunks[cl.tail]
             value == cl.blocks[block.data].vals[block.size]
             c1 == [cl EXCEPT !.chunks[cl.tail].size = @ - 1,
                              !.totalSize = @ - 1]
             b1 == c1.chunks[cl.tail]
         IN  IF b1.size <= b1.offset
             THEN [cl |-> UnlinkTail(c1), val |-> value, ok |-> TRUE]
             ELSE [cl |-> c1, val |-> value, ok |-> TRUE]

\* As PopEnd, reporting found on an empty buffer.
PopEndFoundOnEmpty(cl) ==
    IF cl.tail = Nil \/ cl.validSize = 0 THEN [cl |-> cl, val |-> zero, ok |-> TRUE]
    ELSE LET block == cl.chunks[cl.tail]
             value == cl.blocks[block.data].vals[block.size]
             c1 == [cl EXCEPT !.chunks[cl.tail].size = @ - 1,
                              !.validSize = @ - 1,
                              !.totalSize = @ - 1]
             b1 == c1.chunks[cl.tail]
         IN  IF b1.size <= b1.offset
             THEN [cl |-> UnlinkTail(c1), val |-> value, ok |-> TRUE]
             ELSE [cl |-> c1, val |-> value, ok |-> TRUE]

\* As PopEnd, unlinking the tail only when size < offset.
PopEndKeepsEmptyTail(cl) ==
    IF cl.tail = Nil \/ cl.validSize = 0 THEN [cl |-> cl, val |-> zero, ok |-> FALSE]
    ELSE LET block == cl.chunks[cl.tail]
             value == cl.blocks[block.data].vals[block.size]
             c1 == [cl EXCEPT !.chunks[cl.tail].size = @ - 1,
                              !.validSize = @ - 1,
                              !.totalSize = @ - 1]
             b1 == c1.chunks[cl.tail]
         IN  IF b1.size < b1.offset
             THEN [cl |-> UnlinkTail(c1), val |-> value, ok |-> TRUE]
             ELSE [cl |-> c1, val |-> value, ok |-> TRUE]

PopEnd(cl) ==
    IF cl.tail = Nil \/ cl.validSize = 0 THEN [cl |-> cl, val |-> zero, ok |-> FALSE]
    ELSE LET block == cl.chunks[cl.tail]
             value == cl.blocks[block.data].vals[block.size]
             c1 == [cl EXCEPT !.chunks[cl.tail].size = @ - 1,
                              !.validSize = @ - 1,
                              !.totalSize = @ - 1]
             b1 == c1.chunks[cl.tail]
         IN  IF b1.size <= b1.offset
             THEN [cl |-> UnlinkTail(c1), val |-> value, ok |-> TRUE]
             ELSE [cl |-> c1, val |-> value, ok |-> TRUE]

\* ----------------------------------------------------------- RangeValues
\* The caller's predicate: it returns false on its stop-th call (never if
\* stop = 0) and true on every other call.
Fn(stop, n) == n # stop

\* As VisitGroup, calling fn on all 16 elements before looking at the results.
RECURSIVE VisitGroupNoShortCircuit(_, _, _, _, _)
VisitGroupNoShortCircuit(vals, i, j, stop, calls) ==
    IF j = batchSize
    THEN [calls |-> calls,
          stopped |-> \E n \in (Len(calls) - batchSize + 1)..Len(calls) : ~Fn(stop, n)]
    ELSE VisitGroupNoShortCircuit(vals, i, j + 1, stop, Append(calls, vals[i + j + 1]))

\* Lines 379-386: fn(slice[i]) ... fn(slice[i+15]) joined by ||, from j on.
\* calls are the values fn has been called with so far.
RECURSIVE VisitGroup(_, _, _, _, _)
VisitGroup(vals, i, j, stop, calls) ==
    IF j = batchSize THEN [calls |-> calls, stopped |-> FALSE]
    ELSE LET now == Append(calls, vals[i + j + 1])
         IN  IF ~Fn(stop, Len(now))
             THEN [calls |-> now, stopped |-> TRUE]
             ELSE VisitGroup(vals, i, j + 1, stop, now)

\* Lines 392-396: the elements left after the last whole group.
RECURSIVE VisitRest(_, _, _, _, _)
VisitRest(vals, i, size, stop, calls) ==
    IF i >= size THEN [calls |-> calls, stopped |-> FALSE]
    ELSE LET now == Append(calls, vals[i + 1])
         IN  IF ~Fn(stop, Len(now))
             THEN [calls |-> now, stopped |-> TRUE]
             ELSE VisitRest(vals, i + 1, size, stop, now)

\* Lines 371-396: one chunk, from slot i.
RECURSIVE VisitChunk(_, _, _, _, _)
VisitChunk(vals, i, size, stop, calls) ==
    IF i + batchSize <= size
    THEN LET g == VisitGroup(vals, i, 0, stop, calls)
         IN  IF g.stopped THEN g
             ELSE VisitChunk(vals, i + batchSize, size, stop, g.calls)
    ELSE VisitRest(vals, i, size, stop, calls)

RECURSIVE VisitFrom(_, _, _, _)
VisitFrom(cl, cur, stop, calls) ==
    IF cur = Nil THEN calls
    ELSE LET c == cl.chunks[cur]
         IN  IF c.size > c.offset
             THEN LET r == VisitChunk(cl.blocks[c.data].vals, c.offset, c.size, stop, calls)
                  IN  IF r.stopped THEN r.calls
                      ELSE VisitFrom(cl, c.next, stop, r.calls)
             ELSE VisitFrom(cl, c.next, stop, calls)

\* The values the predicate is called with, in call order.
RangeValues(cl, stop) == VisitFrom(cl, cl.head, stop, <<>>)

\* --------------------------------------------------------------- calls
\* <<len(data), cap(data)>> of the blocks handed to Push: empty, a small
\* append, the shortest bulk append.
PushInputs == {<<0, 0>>, <<2, 2>>, <<9, 9>>}

\* With a block of more than batchSize values, which also fills the tail
\* beyond the small-append test.
BigInputs == {<<0, 0>>, <<2, 2>>, <<17, 17>>}

\* With a block that fills RangeChunk's buffer.
StreamInputs == {<<1, 1>>, <<2, 2>>, <<BatchCap, BatchCap>>}

\* Indices Get is called with: negative, the last one, one past the last.
GetIndexes == {-1, validSize - 1, validSize}

\* RangeValues predicates: never false, false on the second call.
StopCalls == {0, 2}

NoCall == [op |-> "none", arg |-> <<>>, cap |-> 0, idx |-> 0, val |-> zero,
           vals |-> <<>>, ok |-> FALSE]

Called(name, pre) == [NoCall EXCEPT !.op = name] @@ [pre |-> pre]

\* The ChunkPipe before its first Push.
EmptyCL == [blocks |-> <<>>, chunks |-> <<>>, head |-> Nil, tail |-> Nil,
            totalSize |-> 0, validSize |-> 0]

\* The callers that share one ChunkPipe.
Callers == {1, 2}

NoRes == [cl |-> EmptyCL, val |-> zero, vals |-> <<>>, ok |-> FALSE]

\* A caller between calls.
NoThread == [pc |-> "idle", op |-> "none", arg |-> <<>>, cap |-> 0, oob |-> <<>>,
             res |-> NoRes, exp |-> NoRes]

\* The sequential reference: the pipe and the blocks pushed.
NoLin == [cl |-> EmptyCL, pushed |-> <<>>]

\* The stores of a call: the fields and the memory become those of c.
StorePipe(c) ==
    /\ mem' = c.blocks
    /\ chunks' = c.chunks
    /\ head' = c.head
    /\ tail' = c.tail
    /\ totalSize' = c.totalSize
    /\ validSize' = c.validSize

SetPipe(cl) == \E c \in {PackCL(cl)} : StorePipe(c)

\* A call's result, the ChunkPipe in it kept as the state keeps it.
PackRes(r) == [r EXCEPT !.cl = PackCL(@)]

Init ==
    /\ mem = <<>>
    /\ chunks = <<>>
    /\ head = Nil
    /\ tail = Nil
    /\ totalSize = 0
    /\ validSize = 0
    /\ mu = 0
    /\ pc = "idle"
    /\ current = Nil
    /\ buffer = <<>>
    /\ ch = <<>>
    /\ closed = 0
    /\ received = <<>>
    /\ consDone = FALSE
    /\ snapshot = EmptyCL
    /\ nPush = 0
    /\ pushedLen = 0
    /\ poppedCnt = 0
    /\ lastCall = Called("none", EmptyCL)
    /\ root = Nil
    /\ nodes = <<>>
    /\ muW = Nil
    /\ threads = [t \in Callers |-> NoThread]
    /\ lin = NoLin
    /\ out = <<>>
    /\ abandoned = FALSE

\* A lock that excludes nobody.
CanLockAlways == TRUE

\* cl.mu.Lock() returns only while no reader and no writer holds the lock.
CanLock == mu = 0 /\ muW = Nil

\* cl.mu.RLock() returns only while no writer holds the lock.
CanRLock == muW = Nil

\* cl.Push(data) with len(data) = len and cap(data) = cap.
PushCall(len, cap) ==
    LET d == Block(nPush + 1, len) IN
    /\ len = 0 \/ CanLock
    /\ len = 0 \/ SmallAppend(CL, d) \/ FreeIds(CL) # {}
    /\ \E oob \in OobOutcomes :
        /\ oob # <<>> => WritesBeyondCap(CL, d)
        /\ SetPipe(DoPush(CL, d, cap, oob))
    /\ nPush' = IF len = 0 THEN nPush ELSE nPush + 1
    /\ pushedLen' = pushedLen + len
    /\ SetLast([Called("Push", CL) EXCEPT !.arg = d, !.cap = cap])
    /\ UNCHANGED <<treeVars, callVars, abandoned, streamVars, poppedCnt>>

GetCall(index) ==
    LET r == Get(CL, index) IN
    /\ SetLast([Called("Get", CL) EXCEPT !.idx = index, !.val = r.val, !.ok = r.ok])
    /\ UNCHANGED <<treeVars, callVars, abandoned, pipeVars, streamVars, histVars>>

PopChunkFrontCall ==
    LET r == PopChunkFront(CL) IN
    /\ CanLock
    /\ SetPipe(r.cl)
    /\ poppedCnt' = IF r.ok THEN poppedCnt + Len(r.vals) ELSE poppedCnt
    /\ SetLast([Called("PopChunkFront", CL) EXCEPT !.vals = r.vals, !.ok = r.ok])
    /\ UNCHANGED <<treeVars, callVars, abandoned, streamVars, nPush, pushedLen>>

PopChunkEndCall ==
    LET r == PopChunkEnd(CL) IN
    /\ CanLock
    /\ SetPipe(r.cl)
    /\ poppedCnt' = IF r.ok THEN poppedCnt + Len(r.vals) ELSE poppedCnt
    /\ SetLast([Called("PopChunkEnd", CL) EXCEPT !.vals = r.vals, !.ok = r.ok])
    /\ UNCHANGED <<treeVars, callVars, abandoned, streamVars, nPush, pushedLen>>

PopFrontCall ==
    LET r == PopFront(CL) IN
    /\ CanLock
    /\ SetPipe(r.cl)
    /\ poppedCnt' = IF r.ok THEN poppedCnt + 1 ELSE poppedCnt
    /\ SetLast([Called("PopFront", CL) EXCEPT !.val = r.val, !.ok = r.ok])
    /\ UNCHANGED <<treeVars, callVars, abandoned, streamVars, nPush, pushedLen>>

PopEndCall ==
    LET r == PopEnd(CL) IN
    /\ CanLock
    /\ SetPipe(r.cl)
    /\ poppedCnt' = IF r.ok THEN poppedCnt + 1 ELSE poppedCnt
    /\ SetLast([Called("PopEnd", CL) EXCEPT !.val = r.val, !.ok = r.ok])
    /\ UNCHANGED <<treeVars, callVars, abandoned, streamVars, nPush, pushedLen>>

RangeCall ==
    /\ SetLast([Called("Range", CL) EXCEPT !.vals = Range(CL)])
    /\ UNCHANGED <<treeVars, callVars, abandoned, pipeVars, streamVars, histVars>>

\* cl.RangeValues(fn) for an fn that returns false on its stop-th call.
RangeValuesCall(stop) ==
    /\ SetLast([Called("RangeValues", CL) EXCEPT !.idx = stop, !.vals = RangeValues(CL, stop)])
    /\ UNCHANGED <<treeVars, callVars, abandoned, pipeVars, streamVars, histVars>>

\* Push with a block drawn from inputs, at most n non-empty ones in all.
Pushes(inputs, n) ==
    \E in \in inputs :
        /\ in[1] = 0 \/ nPush < n
        /\ in[1] = 0 \/ SmallAppend(CL, Block(nPush + 1, in[1])) \/ Cardinality(FreeIds(CL)) > Cardinality(ChunkIds) - MaxChunks
        /\ PushCall(in[1], in[2])

Pops ==
    \/ PopChunkFrontCall
    \/ PopChunkEndCall
    \/ PopFrontCall
    \/ PopEndCall

Reads ==
    \/ \E index \in GetIndexes : GetCall(index)
    \/ RangeCall
    \/ \E stop \in StopCalls : RangeValuesCall(stop)

\* A single caller.
Next == Pushes(PushInputs, MaxPushes) \/ Pops \/ Reads

Spec == Init /\ [][Next]_vars

\* Blocks on both sides of each test of Push: 8 and 9 values, a block with
\* spare capacity, a block that fills the tail beyond the small-append test.
PathInputs == {<<0, 0>>, <<8, 16>>, <<9, 9>>, <<17, 17>>}

\* A single caller that pushes and pops.
NextPush == Pushes(PathInputs, MaxPushes) \/ (poppedCnt < MaxBigPopped /\ Pops)

SpecPush == Init /\ [][NextPush]_vars

\* A single caller that pushes long blocks, pops a few elements and traverses.
NextBig ==
    \/ Pushes(BigInputs, MaxPushes)
    \/ (poppedCnt < MaxBigPopped /\ Pops)
    \/ \E stop \in StopCalls : RangeValuesCall(stop)

SpecBig == Init /\ [][NextBig]_vars

\* ------------------------------------------------------------ RangeChunk
\* ch <- buffer: the batch is a slice of the goroutine's own array.
CopyBatch(vals) == [alias |-> FALSE, id |-> Nil, lo |-> 0, hi |-> 0, vals |-> vals]

\* ch <- validData: the batch is the slice data[offset:size] of the chunk's block.
AliasBatch(c) == [alias |-> TRUE, id |-> c.data, lo |-> c.offset, hi |-> c.size, vals |-> <<>>]

\* What the receiver of a batch reads in it.
Contents(b) == IF b.alias THEN SubSeq(blocks[b.id].vals, b.lo + 1, b.hi) ELSE b.vals

\* cl.RangeChunk(): makes the channel, starts the goroutine and returns.
RangeChunkCall ==
    /\ pc = "idle"
    /\ pc' = "rlock"
    /\ SetLast(Called("RangeChunk", CL))
    /\ UNCHANGED <<treeVars, callVars, abandoned, pipeVars, histVars, mu, current, buffer, ch, closed, received, consDone, snapshot>>

\* Lines 285-291: cl.mu.RLock(); buffer := make(...); current := cl.head.
ProducerRLock ==
    /\ pc = "rlock"
    /\ CanRLock
    /\ mu' = mu + 1
    /\ buffer' = <<>>
    /\ current' = head
    /\ snapshot' = PackedCL
    /\ pc' = "loop"
    /\ UNCHANGED <<treeVars, callVars, abandoned, pipeVars, histVars, lastCall, ch, closed, received, consDone>>

\* Lines 292-312: one turn of the loop, up to the first channel send.
ProducerLoop ==
    /\ pc = "loop"
    /\ IF current = Nil
       THEN pc' = "flush" /\ UNCHANGED <<current, buffer>>
       ELSE LET c == chunks[current]
                validData == Window(CL, c, c.offset, c.size)
            IN  IF c.offset < c.size
                THEN IF Len(buffer) + Len(validData) <= BatchCap
                     THEN /\ buffer' = buffer \o validData
                          /\ current' = c.next
                          /\ pc' = "loop"
                     ELSE /\ pc' = IF Len(buffer) > 0 THEN "sendBuffer" ELSE "sendData"
                          /\ UNCHANGED <<current, buffer>>
                ELSE /\ current' = c.next
                     /\ UNCHANGED <<pc, buffer>>
    /\ UNCHANGED <<treeVars, callVars, abandoned, pipeVars, histVars, lastCall, mu, ch, closed, received, consDone, snapshot>>

\* A channel nobody receives from and without a buffer: no send gets through.
ChanNeverHasRoom == FALSE

\* ch <- x returns once the channel holds fewer than its capacity of batches
\* (a waiting receiver takes one out first).
ChanHasRoom == Len(ch) < ChanCap

\* Lines 304-305: ch <- buffer; buffer = make(...). The send waits for room.
ProducerSendBuffer ==
    /\ pc = "sendBuffer"
    /\ ChanHasRoom
    /\ ch' = Append(ch, CopyBatch(buffer))
    /\ buffer' = <<>>
    /\ pc' = "sendData"
    /\ UNCHANGED <<treeVars, callVars, abandoned, pipeVars, histVars, lastCall, mu, current, closed, received, consDone, snapshot>>

\* Lines 308, 311: ch <- validData; current = current.next.
ProducerSendData ==
    /\ pc = "sendData"
    /\ ChanHasRoom
    /\ ch' = Append(ch, AliasBatch(chunks[current]))
    /\ current' = chunks[current].next
    /\ pc' = "loop"
    /\ UNCHANGED <<treeVars, callVars, abandoned, pipeVars, histVars, lastCall, mu, buffer, closed, received, consDone, snapshot>>

\* Lines 315-317: if len(buffer) > 0 { ch <- buffer }.
ProducerFlush ==
    /\ pc = "flush"
    /\ IF Len(buffer) > 0
       THEN /\ ChanHasRoom
            /\ ch' = Append(ch, CopyBatch(buffer))
       ELSE UNCHANGED ch
    /\ pc' = "close"
    /\ UNCHANGED <<treeVars, callVars, abandoned, pipeVars, histVars, lastCall, mu, current, buffer, closed, received, consDone, snapshot>>

\* Line 319: close(ch).
ProducerClose ==
    /\ pc = "close"
    /\ closed' = closed + 1
    /\ pc' = "runlock"
    /\ UNCHANGED <<treeVars, callVars, abandoned, pipeVars, histVars, lastCall, mu, current, buffer, ch, received, consDone, snapshot>>

\* Line 286: the deferred cl.mu.RUnlock().
ProducerRUnlock ==
    /\ pc = "runlock"
    /\ mu' = mu - 1
    /\ pc' = "done"
    /\ UNCHANGED <<treeVars, callVars, abandoned, pipeVars, histVars, lastCall, current, buffer, ch, closed, received, consDone, snapshot>>

\* As ConsumerReceive, for a consumer that never takes a batch.
ConsumerNeverReceives == FALSE

\* The consumer's receive: the oldest batch on the channel, read on receipt.
\* The block of a window leaves memory once no chunk and no batch points to it.
ConsumerReceive ==
    /\ ~consDone
    /\ ~abandoned
    /\ Len(ch) > 0
    /\ received' = Append(received, Pack(Contents(Head(ch))))
    /\ ch' = Tail(ch)
    /\ mem' = Restrict(mem,
                    DOMAIN mem \cap
                        ({chunks[c].data : c \in DOMAIN chunks}
                            \cup {ch[i].id : i \in {j \in 2..Len(ch) : ch[j].alias}}))
    /\ UNCHANGED <<treeVars, callVars, abandoned, chunks, head, tail, totalSize, validSize, histVars, lastCall,
                   mu, pc, current, buffer, closed, consDone, snapshot>>

\* The consumer's receive on the closed and drained channel ends its loop;
\* a consumer that has stopped makes no receive.
ConsumerSeesClosed ==
    /\ ~consDone
    /\ ~abandoned
    /\ Len(ch) = 0
    /\ closed > 0
    /\ consDone' = TRUE
    /\ UNCHANGED <<treeVars, callVars, abandoned, pipeVars, histVars, lastCall, mu, pc, current, buffer, ch, closed, received, snapshot>>

\* One streaming consumer, and a caller that pushes and pops meanwhile.
NextStream ==
    \/ Pushes(StreamInputs, MaxStreamPushes)
    \/ (poppedCnt < MaxStreamPopped /\ Pops)
    \/ RangeChunkCall
    \/ ProducerRLock
    \/ ProducerLoop
    \/ ProducerSendBuffer
    \/ ProducerSendData
    \/ ProducerFlush
    \/ ProducerClose
    \/ ProducerRUnlock
    \/ ConsumerReceive
    \/ ConsumerSeesClosed

SpecStream == Init /\ [][NextStream]_vars

\* ------------------------------------------------------ concurrent callers
\* Each caller's call takes three steps: it gets the lock, reads the fields
\* and works out what to store and to return, then stores, returns and lets
\* the deferred unlock run.
Mutators == {"Push", "PopFront", "PopEnd", "PopChunkFront", "PopChunkEnd"}
PopOps == Mutators \ {"Push"}
ReadOps == {"Get", "Range"}

\* One call run alone on cl: the ChunkPipe it leaves and what it returns.
Apply(cl, op, d, cap, oob) ==
    CASE op = "Push" ->
            [cl |-> DoPush(cl, d, cap, oob), val |-> zero, vals |-> <<>>, ok |-> TRUE]
      [] op = "PopFront" ->
            LET r == PopFront(cl) IN [cl |-> r.cl, val |-> r.val, vals |-> <<>>, ok |-> r.ok]
      [] op = "PopEnd" ->
            LET r == PopEnd(cl) IN [cl |-> r.cl, val |-> r.val, vals |-> <<>>, ok |-> r.ok]
      [] op = "PopChunkFront" ->
            LET r == PopChunkFront(cl) IN [cl |-> r.cl, val |-> zero, vals |-> r.vals, ok |-> r.ok]
      [] op = "PopChunkEnd" ->
            LET r == PopChunkEnd(cl) IN [cl |-> r.cl, val |-> zero, vals |-> r.vals, ok |-> r.ok]
      [] op = "Get" ->
            LET r == Get(cl, 0) IN [cl |-> cl, val |-> r.val, vals |-> <<>>, ok |-> r.ok]
      [] op = "Range" ->
            [cl |-> cl, val |-> zero, vals |-> Range(cl), ok |-> TRUE]

\* The values a call hands to its caller by popping.
Popped(op, r) ==
    IF ~r.ok THEN <<>>
    ELSE IF op \in {"PopFront", "PopEnd"} THEN <<r.val>>
    ELSE IF op \in {"PopChunkFront", "PopChunkEnd"} THEN r.vals
    ELSE <<>>

\* Caller t calls op; a Push passes a block of len values and capacity cap.
Invoke(t, op, len, cap) ==
    /\ th[t].pc = "idle"
    /\ op = "Push" => len > 0
    /\ threads' = [threads EXCEPT ![t] = [NoThread EXCEPT
                !.pc = "lock", !.op = op, !.cap = cap,
                !.arg = IF op = "Push" THEN Block(nPush + 1, len) ELSE <<>>]]
    /\ nPush' = IF op = "Push" THEN nPush + 1 ELSE nPush
    /\ UNCHANGED <<pipeVars, streamVars, pushedLen, poppedCnt, lastCall, treeVars,
                   muW, lin, out, abandoned>>

\* cl.mu.Lock() or cl.mu.RLock() returns to caller t. The reference runs the
\* whole call at this moment.
AcquireLock(t) ==
    /\ th[t].pc = "lock"
    /\ IF th[t].op \in Mutators
       THEN CanLock /\ muW' = t /\ mu' = mu
       ELSE CanRLock /\ mu' = mu + 1 /\ muW' = muW
    /\ \E oob \in OobOutcomes :
        /\ oob # <<>> => (th[t].op = "Push" /\ WritesBeyondCap(lin.cl, th[t].arg))
        /\ LET e == Apply(lin.cl, th[t].op, th[t].arg, th[t].cap, oob) IN
            /\ threads' = [threads EXCEPT ![t].pc = "body", ![t].oob = oob, ![t].exp = e]
            /\ lin' = [cl |-> e.cl,
                       pushed |-> IF th[t].op = "Push" THEN Append(lin.pushed, th[t].arg)
                                  ELSE lin.pushed]
    /\ UNCHANGED <<pipeVars, pc, current, buffer, ch, closed, received, consDone, snapshot,
                   histVars, lastCall, treeVars, out, abandoned>>

\* Caller t runs the method's body on the fields as they are now.
RunBody(t) ==
    /\ th[t].pc = "body"
    /\ threads' = [threads EXCEPT
            ![t].pc = "unlock",
            ![t].res = PackRes(Apply(CL, th[t].op, th[t].arg, th[t].cap, th[t].oob))]
    /\ UNCHANGED <<pipeVars, streamVars, histVars, lastCall, treeVars, muW, lin, out, abandoned>>

\* Caller t's stores are in place, the deferred unlock runs, the call returns.
ReleaseLock(t) ==
    /\ th[t].pc = "unlock"
    /\ IF th[t].op \in Mutators
       THEN StorePipe(threads[t].res.cl) /\ muW' = Nil /\ mu' = mu
       ELSE UNCHANGED pipeVars /\ mu' = mu - 1 /\ muW' = muW
    /\ out' = out \o Popped(th[t].op, th[t].res)
    /\ poppedCnt' = poppedCnt + Len(Popped(th[t].op, th[t].res))
    /\ pushedLen' = pushedLen + Len(th[t].arg)
    /\ threads' = [threads EXCEPT ![t] = NoThread]
    /\ UNCHANGED <<pc, current, buffer, ch, closed, received, consDone, snapshot,
                   nPush, lastCall, treeVars, lin, abandoned>>

\* Blocks the concurrent callers push: one short enough for the in-place
\* path, one that always takes a chunk of its own.
ConcInputs == {<<2, 2>>, <<9, 9>>}

\* The calls of caller t: Push of a block of inputs, the other methods of ops.
Calls(t, inputs, ops, maxPopped) ==
    \/ \E in \in inputs : nPush < MaxPushes /\ Invoke(t, "Push", in[1], in[2])
    \/ \E op \in ops \ {"Push"} :
        /\ op \in PopOps => poppedCnt < maxPopped
        /\ Invoke(t, op, 0, 0)
    \/ AcquireLock(t)
    \/ RunBody(t)
    \/ ReleaseLock(t)

\* Two callers sharing the ChunkPipe.
NextConc == \E t \in Callers : Calls(t, ConcInputs, Mutators \cup ReadOps, MaxConcPopped)

SpecConc == Init /\ [][NextConc]_vars

\* ------------------------------------------ a stream that is abandoned
\* The consumer stops receiving, the channel not yet closed.
ConsumerAbandons ==
    /\ pc # "idle"
    /\ closed = 0
    /\ ~consDone
    /\ ~abandoned
    /\ abandoned' = TRUE
    /\ UNCHANGED <<pipeVars, streamVars, histVars, lastCall, treeVars, callVars>>

\* The blocks pushed before the stream are in turn one of a single value
\* and one as long as RangeChunk's buffer: the goroutine sends every chunk
\* as a batch, the first of each pair from its buffer.
AbandonLen == IF nPush % 2 = 0 THEN 1 ELSE BatchCap

\* Chunks in the chain when RangeChunk is called: one, or one more than the
\* channel holds after the consumer took its share.
AbandonFills == {1, ChanCap + MaxReceived + 1}

\* The caller's mutating calls: it pushes its blocks before it calls
\* RangeChunk; once the goroutine has got the lock it calls the pops and
\* pushes at most one more block. (SpecStream has the calls that fall between
\* RangeChunk's return and the goroutine's RLock.)
Filling == pc = "idle" /\ nPush < ChanCap + MaxReceived + 1
Afterwards == pc \notin {"idle", "rlock"}

\* A caller that pushes its blocks, starts one stream and goes on calling the
\* mutating methods, and a consumer that receives a few batches and may stop.
NextAbandon ==
    \/ /\ Filling \/ (Afterwards /\ nPush \in AbandonFills)
       /\ PushCall(AbandonLen, AbandonLen)
    \/ (Afterwards /\ poppedCnt < MaxAbandonPopped /\ Pops)
    \/ (nPush \in AbandonFills /\ RangeChunkCall)
    \/ ProducerRLock
    \/ ProducerLoop
    \/ ProducerSendBuffer
    \/ ProducerSendData
    \/ ProducerFlush
    \/ ProducerClose
    \/ ProducerRUnlock
    \/ (Len(recv) < MaxReceived /\ ConsumerReceive)
    \/ ConsumerSeesClosed
    \/ ConsumerAbandons

SpecAbandon == Init /\ [][NextAbandon]_vars

\* ------------------------------------------- a stream that is drained
\* Chunks in the chain when RangeChunk is called: one, two, or more than
\* the channel holds at a time.
LiveFills == {1, 2, ChanCap + MaxReceived + 1}

\* The caller whose mutating calls meet the stream.
LiveCallers == {1}

\* The chain is shorter than the channel: no send of the stream waits.
ShortChain == nPush < ChanCap

\* The consumer of a short chain receives whenever there is a batch. That of
\* a long chain is slow: it takes a batch when the channel is full, and the
\* batches left in the closed channel once no call is in progress.
ConsumerReceivesLate ==
    /\ \/ ShortChain
       \/ Len(ch) = ChanCap
       \/ (closed > 0 /\ \A t \in LiveCallers : th[t].pc = "idle")
    /\ ConsumerReceive

\* The caller calls at any time of a short chain's stream, and while the
\* goroutine waits at the full channel in a long chain's.
CallTime == pc # "idle" /\ (ShortChain \/ (closed = 0 /\ Len(ch) = ChanCap))

\* A caller that pushes its blocks, starts one stream and then calls the
\* mutating methods, and a consumer that receives until the channel is
\* closed.
NextLive ==
    \/ (Filling /\ PushCall(AbandonLen, AbandonLen))
    \/ (nPush \in LiveFills /\ RangeChunkCall)
    \/ \E t \in LiveCallers :
        /\ th[t].pc # "idle" \/ CallTime
        /\ Calls(t, {<<AbandonLen, AbandonLen>>}, Mutators, MaxStreamPopped)
    \/ ProducerRLock
    \/ ProducerLoop
    \/ ProducerSendBuffer
    \/ ProducerSendData
    \/ ProducerFlush
    \/ ProducerClose
    \/ ProducerRUnlock
    \/ ConsumerReceivesLate
    \/ ConsumerSeesClosed

\* The scheduler runs every goroutine that can take a step: the producer,
\* the consumer's receive loop, a caller that is inside a method or whose
\* Lock can return. Whether a method is called at all is up to the caller.
LiveFairness ==
    /\ WF_vars(ProducerRLock)
    /\ WF_vars(ProducerLoop)
    /\ WF_vars(ProducerSendBuffer)
    /\ WF_vars(ProducerSendData)
    /\ WF_vars(ProducerFlush)
    /\ WF_vars(ProducerClose)
    /\ WF_vars(ProducerRUnlock)
    /\ WF_vars(ConsumerReceivesLate)
    /\ WF_vars(ConsumerSeesClosed)
    /\ \A t \in LiveCallers :
        WF_vars(AcquireLock(t)) /\ WF_vars(RunBody(t)) /\ WF_vars(ReleaseLock(t))

SpecLive == Init /\ [][NextLive]_vars /\ LiveFairness

\* --------------------------------------------------------------- claims
Pre == Range(last.pre)
Now == Range(CL)

\* C1: after Push(d) the logical sequence is the previous one followed by d,
\* on either append path, and an empty d leaves the buffer as it was.
C1_PushAppends ==
    last.op = "Push" =>
        /\ Now = Pre \o last.arg
        /\ last.arg = <<>> => CL = last.pre

\* C2: validSize is the sum of the pushed lengths minus the number of
\* elements returned by successful pops.
C2_ValidSizeCounts == validSize = pushedLen - poppedCnt

C2_Witness ==
    /\ last.op = "PopEnd" /\ last.ok
    /\ nPush = 2 /\ poppedCnt >= 3 /\ validSize > 0

\* C3: PopFront on a non-empty buffer returns the first element of the
\* logical sequence and leaves the rest of it, in order.
C3_PopFrontFifo ==
    (last.op = "PopFront" /\ Pre # <<>>) =>
        /\ last.ok
        /\ last.val = Head(Pre)
        /\ Now = Tail(Pre)

C3_Witness ==
    /\ last.op = "PopFront" /\ last.ok
    /\ last.pre.chunks[last.pre.head].offset > 0
    /\ last.pre.head # last.pre.tail
    /\ Len(Now) >= 2

\* C4: PopEnd on a non-empty buffer returns the last element of the logical
\* sequence and leaves the rest of it, also when that element was written
\* into the tail chunk by a small append after earlier PopEnd calls.
C4_PopEndLifo ==
    (last.op = "PopEnd" /\ Pre # <<>>) =>
        /\ last.ok
        /\ last.val = Pre[Len(Pre)]
        /\ Now = SubSeq(Pre, 1, Len(Pre) - 1)

\* The element popped came with the second Push and sat in the block of the first.
C4_Witness ==
    /\ last.op = "PopEnd" /\ last.ok
    /\ last.val = Block(2, 2)[1]
    /\ poppedCnt >= 3
    /\ tail # Nil /\ tail = last.pre.tail
    /\ blocks[chunks[tail].data].vals[1] = Block(1, 1)[1]

\* C5: Get(i) is (Range()[i], true) for 0 <= i < validSize and (zero, false)
\* for every other i, and Get leaves the buffer as it was.
C5_GetMatchesRange ==
    /\ \A i \in -2..(validSize + 1) :
        Get(CL, i) = IF 0 <= i /\ i < validSize
                     THEN [val |-> Now[i + 1], ok |-> TRUE]
                     ELSE [val |-> zero, ok |-> FALSE]
    /\ last.op = "Get" =>
        /\ CL = last.pre
        /\ last.ok = (0 <= last.idx /\ last.idx < validSize)
        /\ last.ok => last.val = Now[last.idx + 1]
        /\ ~last.ok => last.val = zero

C5_Witness ==
    /\ last.op = "Get" /\ last.ok
    /\ head # tail
    /\ chunks[head].offset > 0
    /\ last.idx >= chunks[head].size - chunks[head].offset

\* C6: PopChunkFront on a non-empty buffer returns the window [offset, size)
\* of the head chunk, unlinks the chunk and removes that prefix from the
\* logical sequence; PopChunkEnd does so with the tail chunk and the suffix;
\* validSize and totalSize go down by the length returned.
C6_PopChunkWindow ==
    /\ (last.op = "PopChunkFront" /\ Pre # <<>>) =>
        LET c == last.pre.chunks[last.pre.head]
            w == SubSeq(last.pre.blocks[c.data].vals, c.offset + 1, c.size)
        IN  /\ last.ok
            /\ last.vals = w
            /\ Pre = w \o Now
            /\ head = c.next
            /\ last.pre.head \notin DOMAIN chunks
            /\ validSize = last.pre.validSize - Len(w)
            /\ totalSize = last.pre.totalSize - Len(w)
    /\ (last.op = "PopChunkEnd" /\ Pre # <<>>) =>
        LET c == last.pre.chunks[last.pre.tail]
            w == SubSeq(last.pre.blocks[c.data].vals, c.offset + 1, c.size)
        IN  /\ last.ok
            /\ last.vals = w
            /\ Pre = Now \o w
            /\ tail = c.prev
            /\ last.pre.tail \notin DOMAIN chunks
            /\ validSize = last.pre.validSize - Len(w)
            /\ totalSize = last.pre.totalSize - Len(w)

C6_Witness ==
    /\ last.op = "PopChunkFront" /\ last.ok
    /\ last.pre.chunks[last.pre.head].offset > 0
    /\ Len(last.vals) >= 2
    /\ validSize > 0

\* C7: on a buffer that holds no elements PopFront, PopEnd, PopChunkFront,
\* PopChunkEnd and Get report not-found with the zero value and leave head,
\* tail, validSize and totalSize as they were.
C7_EmptyReportsNotFound ==
    /\ (last.op \in {"PopFront", "PopEnd", "PopChunkFront", "PopChunkEnd", "Get"}
            /\ Pre = <<>>) =>
        /\ ~last.ok
        /\ last.val = zero
        /\ last.vals = <<>>
        /\ head = last.pre.head
        /\ tail = last.pre.tail
        /\ validSize = last.pre.validSize
        /\ totalSize = last.pre.totalSize
    /\ Now = <<>> =>
        /\ \A i \in -2..2 : Get(CL, i) = [val |-> zero, ok |-> FALSE]
        /\ ~PopFront(CL).ok /\ ~PopEnd(CL).ok
        /\ ~PopChunkFront(CL).ok /\ ~PopChunkEnd(CL).ok

\* Everything pushed was popped, and PopEnd is called again.
C7_Witness ==
    /\ last.op = "PopEnd" /\ ~last.ok
    /\ pushedLen > 0 /\ pushedLen = poppedCnt

\* C8: once the pops have removed every pushed element, head and tail are nil
\* and validSize = totalSize = 0.
C8_DrainedIsEmpty ==
    (pushedLen = poppedCnt) =>
        /\ head = Nil
        /\ tail = Nil
        /\ validSize = 0
        /\ totalSize = 0

C8_Witness ==
    /\ nPush = 2 /\ pushedLen = poppedCnt
    /\ last.op = "PopEnd" /\ last.ok

\* C9: RangeValues calls the predicate on the elements of the logical
\* sequence in order; a predicate that returns false on its k-th call is
\* called exactly k times, one that never does exactly validSize times.
C9_RangeValuesStops ==
    /\ \A stop \in 0..(validSize + 1) :
        RangeValues(CL, stop) =
            IF 1 <= stop /\ stop <= validSize THEN SubSeq(Now, 1, stop) ELSE Now
    /\ last.op = "RangeValues" =>
        /\ CL = last.pre
        /\ last.vals = IF 1 <= last.idx /\ last.idx <= validSize
                       THEN SubSeq(Now, 1, last.idx) ELSE Now

\* The predicate said false inside a group of 16, with a later chunk unvisited.
C9_Witness ==
    /\ last.op = "RangeValues" /\ last.idx = 2
    /\ head # tail
    /\ chunks[head].offset + batchSize <= chunks[head].size
    /\ Len(last.vals) = 2

RECURSIVE Flatten(_)
Flatten(batches) ==
    IF batches = <<>> THEN <<>> ELSE Head(batches) \o Flatten(Tail(batches))

\* C10: the batches a consumer receives up to the close of the channel,
\* concatenated, are the logical sequence of the moment the goroutine got the
\* shared lock, whatever is pushed and popped meanwhile; no batch is empty and
\* the channel is closed once, after the last batch was sent.
C10_StreamIsSnapshot ==
    /\ consDone => Flatten(recv) = Range(snap)
    /\ \A i \in 1..Len(recv) : recv[i] # <<>>
    /\ closed <= 1
    /\ closed = 1 => pc \in {"runlock", "done"}

\* The linked chunks in order: from head along next.
RECURSIVE ChainFrom(_, _, _)
ChainFrom(cl, c, fuel) ==
    IF c = Nil \/ fuel = 0 \/ c \notin DOMAIN cl.chunks THEN <<>>
    ELSE <<c>> \o ChainFrom(cl, cl.chunks[c].next, fuel - 1)

Chain == ChainFrom(CL, head, Cardinality(DOMAIN chunks))

Linked == {Chain[i] : i \in 1..Len(Chain)}

RECURSIVE SumSeq(_)
SumSeq(s) == IF s = <<>> THEN 0 ELSE Head(s) + SumSeq(Tail(s))

SumOfSizes == SumSeq([i \in 1..Len(Chain) |-> chunks[Chain[i]].size])

SumOfValid == SumSeq([i \in 1..Len(Chain) |-> chunks[Chain[i]].size - chunks[Chain[i]].offset])

\* C14 as stated: totalSize is the sum of size over the linked chunks, the
\* consumed front slots of a chunk still counted.
C14_TotalSizeCountsConsumed == totalSize = SumOfSizes

\* C14: totalSize is the sum of size - offset over the linked chunks, that
\* is validSize: the consumed front slots of a chunk are not counted.
C14_TotalSizeCountsValid ==
    /\ totalSize = SumOfValid
    /\ totalSize = validSize

\* A PopFront left a consumed slot at the front of the linked head.
C14_Witness ==
    /\ last.op = "PopFront" /\ last.ok
    /\ head # Nil /\ chunks[head].offset > 0
    /\ totalSize < SumOfSizes

\* C15: every linked chunk has 0 <= offset <= size, validSize is the sum of
\* size - offset over the linked chunks, and 0 <= validSize <= totalSize.
C15_CountersInRange ==
    /\ \A c \in Linked : 0 <= chunks[c].offset /\ chunks[c].offset <= chunks[c].size
    /\ validSize = SumOfValid
    /\ 0 <= validSize /\ validSize <= totalSize

\* Two linked chunks, the head one partly consumed, after a chunk pop.
C15_Witness ==
    /\ last.op \in {"PopChunkFront", "PopChunkEnd"} /\ last.ok
    /\ Cardinality(DOMAIN last.pre.chunks) = 2
    /\ last.pre.chunks[last.pre.head].offset > 0
    /\ validSize > 0

\* C16: head is nil exactly when tail is nil exactly when there is no chunk;
\* otherwise head.prev and tail.next are nil, next from head reaches tail
\* through every chunk, and c.next.prev = c.
C16_ChainWellFormed ==
    /\ (head = Nil) = (tail = Nil)
    /\ (head = Nil) = (DOMAIN chunks = {})
    /\ head # Nil =>
        /\ head \in DOMAIN chunks /\ tail \in DOMAIN chunks
        /\ chunks[head].prev = Nil
        /\ chunks[tail].next = Nil
        /\ Chain[Len(Chain)] = tail
        /\ Linked = DOMAIN chunks
        /\ \A c \in Linked :
            chunks[c].next # Nil =>
                /\ chunks[c].next \in DOMAIN chunks
                /\ chunks[chunks[c].next].prev = c

\* A pop unlinked the head of a chain of two chunks.
C16_Witness ==
    /\ last.op \in {"PopFront", "PopChunkFront"} /\ last.ok
    /\ Cardinality(DOMAIN last.pre.chunks) = 2
    /\ head # Nil /\ head = tail
    /\ head # last.pre.head

\* C17: every linked chunk has offset < size, so no call finds the chunk it
\* looks at empty: the branches of PopFront, PopChunkFront and PopChunkEnd
\* that unlink an empty chunk and report not-found with validSize > 0 are
\* not taken.
C17_NoEmptyChunkLinked ==
    /\ \A c \in Linked : chunks[c].offset < chunks[c].size
    /\ (last.op \in {"PopFront", "PopChunkFront", "PopChunkEnd"} /\ last.pre.validSize > 0)
        => last.ok

\* A pop took the last valid element of a chunk, which left the chain at once.
C17_Witness ==
    /\ last.op \in {"PopFront", "PopEnd"} /\ last.ok
    /\ Cardinality(DOMAIN last.pre.chunks) = 2
    /\ Cardinality(DOMAIN chunks) = 1
    /\ validSize > 0

\* C18: a Push of a non-empty block allocates no chunk exactly when the block
\* has at most 8 values and the tail exists with size - offset < 16: the
\* chain is the same, the stores go to the tail's slots size .. size+len-1
\* and to no other slot, and tail.size grows by len. Otherwise exactly one
\* chunk is linked behind the tail, with offset 0 and size len, over the block.
C18_PushPaths ==
    (last.op = "Push" /\ last.arg # <<>>) =>
        LET pre == last.pre
            d == last.arg
            small == /\ Len(d) <= 8
                     /\ pre.tail # Nil
                     /\ pre.chunks[pre.tail].size - pre.chunks[pre.tail].offset < 16
        IN  IF small
            THEN LET t == pre.chunks[pre.tail] IN
                 /\ DOMAIN chunks = DOMAIN pre.chunks
                 /\ head = pre.head /\ tail = pre.tail
                 /\ chunks = [pre.chunks EXCEPT ![pre.tail].size = t.size + Len(d)]
                 /\ DOMAIN blocks = DOMAIN pre.blocks
                 /\ Len(blocks[t.data].vals) >= t.size + Len(d)
                 /\ \A i \in 1..Len(d) :
                        t.size + i <= pre.blocks[t.data].cap
                            => blocks[t.data].vals[t.size + i] = d[i]
                 /\ \A b \in DOMAIN pre.blocks : \A i \in 1..Len(pre.blocks[b].vals) :
                        (b # t.data \/ i <= t.size \/ i > t.size + Len(d))
                            => blocks[b].vals[i] = pre.blocks[b].vals[i]
            ELSE /\ Cardinality(DOMAIN chunks) = Cardinality(DOMAIN pre.chunks) + 1
                 /\ tail \notin DOMAIN pre.chunks
                 /\ chunks[tail].offset = 0 /\ chunks[tail].size = Len(d)
                 /\ chunks[tail].prev = pre.tail /\ chunks[tail].next = Nil
                 /\ blocks[chunks[tail].data].vals = d
                 /\ head = IF pre.tail = Nil THEN tail ELSE pre.head
                 /\ \A c \in DOMAIN pre.chunks :
                        chunks[c] = IF c = pre.tail THEN [pre.chunks[c] EXCEPT !.next = tail]
                                    ELSE pre.chunks[c]
                 /\ \A b \in DOMAIN pre.blocks : blocks[b] = pre.blocks[b]

\* Eight values were stored in place behind a tail holding 15 valid ones.
C18_Witness ==
    /\ last.op = "Push" /\ Len(last.arg) = 8
    /\ last.pre.tail # Nil
    /\ last.pre.chunks[last.pre.tail].size - last.pre.chunks[last.pre.tail].offset = 15
    /\ tail = last.pre.tail
    /\ chunks[tail].size = last.pre.chunks[tail].size + 8

\* C19: the small append does not look at the capacity of the tail's block:
\* whenever its test passes and the tail's size plus the new length exceeds
\* that capacity, Push still stores in place, at slot indices at or beyond
\* the end of the caller's block.
C19_StoresBeyondBlock ==
    (last.op = "Push" /\ WritesBeyondCap(last.pre, last.arg)) =>
        LET t == last.pre.chunks[last.pre.tail]
            c == last.pre.blocks[t.data].cap
        IN  /\ tail = last.pre.tail
            /\ DOMAIN chunks = DOMAIN last.pre.chunks
            /\ chunks[tail].size = t.size + Len(last.arg)
            /\ chunks[tail].size > c
            /\ Len(blocks[t.data].vals) > c

\* Push of a block of 2 values, then Push of 2 more: slots 2 and 3 of a
\* block of capacity 2 were stored.
C19_Witness ==
    /\ last.op = "Push" /\ Len(last.arg) = 2
    /\ last.pre.tail # Nil
    /\ last.pre.blocks[last.pre.chunks[last.pre.tail].data].cap = 2
    /\ last.pre.chunks[last.pre.tail].size = 2
    /\ chunks[tail].size = 4
    /\ Len(blocks[chunks[tail].data].vals) = 4

\* The sum of the child at address n of the index tree, 0 for no child.
SumAt(n) == IF n = Nil THEN 0 ELSE nodes[n].sum

\* C20: the index tree is built on every chunk insertion: root is non-nil
\* once a chunk has been linked, the tree has a node for every linked chunk
\* (the one of the first chunk is what insertBlockToTree makes of it), and a
\* node's sum is at least the sums of its children.
C20_TreeIndexesChunks ==
    /\ nPush > 0 => root # Nil
    /\ \A c \in DOMAIN chunks : \E n \in DOMAIN nodes : nodes[n].blockAddr = c
    /\ (last.op = "Push" /\ last.arg # <<>> /\ last.pre.head = Nil)
        => Tree = InsertBlockToTree(EmptyTree, chunks, head)
    /\ \A n \in DOMAIN nodes : nodes[n].sum >= SumAt(nodes[n].left) + SumAt(nodes[n].right)

\* Caller t is between the return of its Lock or RLock and its unlock.
InCall(t) == th[t].pc \in {"body", "unlock"}

\* The number of values pushed by the calls that got the lock.
PushedCount == SumSeq([i \in 1..Len(lin.pushed) |-> Len(lin.pushed[i])])

\* C11: whatever the interleaving of the callers' steps, a mutating call has
\* the fields to itself from its Lock to its Unlock, every call returns what
\* it returns when the calls run one at a time in lock order, and so does the
\* ChunkPipe they leave; no value is lost, duplicated or popped twice, and
\* the values of one Push stay next to each other and in order.
C11_CallsAreAtomic ==
    /\ muW # Nil => (mu = 0 /\ \A t \in Callers : InCall(t) => t = muW)
    /\ mu = Cardinality({t \in Callers : InCall(t) /\ th[t].op \in ReadOps})
    /\ \A t \in Callers : th[t].pc = "unlock" => th[t].res = th[t].exp
    /\ muW = Nil =>
        LET now == Now
            all == out \o now
        IN  /\ CL = lin.cl
            /\ Len(all) = PushedCount
            /\ \A i \in 1..Len(all) :
                all[i] \notin GarbageValues =>
                    /\ \E k \in 1..Len(lin.pushed) : \E m \in 1..Len(lin.pushed[k]) :
                            lin.pushed[k][m] = all[i]
                    /\ \A j \in 1..Len(all) : all[j] = all[i] => j = i
            /\ \A i \in 1..Len(now) : \A j \in (i + 1)..Len(now) :
                (now[i] \notin GarbageValues /\ now[j] \notin GarbageValues
                    /\ now[i] \div 100 = now[j] \div 100)
                    => now[j] - now[i] = j - i

\* One caller is inside a pop that found a value while the other waits for
\* the lock with a Push, after both pushed and popped before.
C11_Witness ==
    \E t \in Callers : \E u \in Callers \ {t} :
        /\ th[t].pc = "unlock" /\ th[t].op \in PopOps /\ th[t].res.ok
        /\ th[u].pc = "lock" /\ th[u].op = "Push"
        /\ out # <<>>
        /\ Len(lin.pushed) >= 1

\* Where the goroutine is from the return of its RLock to its close(ch).
Streaming == {"loop", "sendBuffer", "sendData", "flush", "close"}

\* The goroutine is at a channel send with a batch in hand.
AtSend == pc \in {"sendBuffer", "sendData"} \/ (pc = "flush" /\ buffer # <<>>)

\* A step of the goroutine at a channel send.
ProducerSend == ProducerSendBuffer \/ ProducerSendData \/ ProducerFlush

\* C13: with a consumer that receives until the channel is closed and a fair
\* scheduler, the goroutine that got the shared lock closes the channel and
\* releases the lock, and a mutating call waiting for the lock completes; no
\* mutating call is inside the ChunkPipe or changes it between the
\* goroutine's RLock and its close(ch).
C13_DrainedStreamEnds ==
    /\ (pc \in Streaming) ~> (closed = 1 /\ pc = "done" /\ mu = 0)
    /\ \A t \in LiveCallers : (th[t].pc = "lock") ~> (th[t].pc = "idle")
    /\ [](pc \in Streaming => (mu > 0 /\ muW = Nil))
    /\ [][(pc \in Streaming) => UNCHANGED <<chunks, head, tail, totalSize, validSize>>]_vars

\* The goroutine is at a send that finds the channel full and waits for the
\* consumer, which has taken a batch before; a mutating call waits for the
\* lock meanwhile.
C13_Witness ==
    /\ ~abandoned /\ ~consDone
    /\ AtSend /\ Len(ch) = ChanCap
    /\ Len(recv) >= 1
    /\ \E t \in LiveCallers : th[t].pc = "lock" /\ th[t].op \in Mutators

\* The consumer has stopped and the goroutine is at a send that finds the
\* channel full.
Stuck == abandoned /\ AtSend /\ Len(ch) = ChanCap

\* C12 as stated: once the consumer has stopped receiving, the channel not
\* yet closed, the goroutine never closes the channel nor ends, and it keeps
\* the shared lock from its RLock on.
C12_AbandonedNeverEnds ==
    abandoned => (closed = 0 /\ pc # "done" /\ (pc \in Streaming => mu > 0))

\* C12: the goroutine waits at a send only when the channel holds 256
\* batches not yet received. If the consumer has stopped receiving by then,
\* the goroutine stays at that send for ever with the shared lock held and
\* the channel open, and no Push of a non-empty block and no pop takes
\* effect from then on; at a send that finds room in the channel the
\* goroutine goes on, whether the consumer has stopped or not.
C12_FullChannelBlocks ==
    /\ [](Stuck => (mu > 0 /\ closed = 0))
    /\ [](Stuck => ~ENABLED (PushCall(1, 1) \/ Pops \/ ProducerSend \/ ConsumerReceive))
    /\ [][Stuck => (Stuck' /\ UNCHANGED <<pipeVars, streamVars>>)]_vars
    /\ []((AtSend /\ Len(ch) < ChanCap) => ENABLED ProducerSend)

\* The consumer took a batch and stopped; the goroutine has filled the
\* channel with 256 batches and waits at its next send, the shared lock held
\* and the channel open, the ChunkPipe as it was when it got the lock.
C12_Witness ==
    /\ Stuck
    /\ Len(recv) >= 1
    /\ mu > 0 /\ closed = 0
    /\ CL = snap

====
